---- MODULE Spec2Model ----
(***************************************************************************)
(* Model of the chat orchestration core of cal-assistant:                  *)
(*   - the POST handler of src/app/api/chat/route.ts (tool loop, completion *)
(*     verification, single retry, done record),                            *)
(*   - validateToolCall (date-enforcer), validateEventDate and the          *)
(*     verification ledger (date-validator),                                *)
(*   - detectAction / validateActionCompleted (action-detector),            *)
(*   - executeToolCall (tool-executor) and getDateInfo (date-info).         *)
(*                                                                          *)
(* Dates are day numbers; the weekday of day n is n % 7 with 0 = Sunday.    *)
(* An instant is a day number and an hour.  Texts are modelled by the       *)
(* tokens the code's regular expressions look at.                           *)
(***************************************************************************)
EXTENDS Integers, Sequences, FiniteSets, TLC

VARIABLES
  pc,                 \* position of the POST handler
  phase,              \* which model call is awaited / was answered: initial, loop, retry, final
  now,                \* the current instant (new Date()) of the request
  message,            \* the user's message, a sequence of lower-case words
  verifiedDates,      \* the module-level verification ledger: isoDate -> dayOfWeek
  requestedAction,    \* detectAction(message)
  toolsCalled,        \* names of the tools the executor was invoked for
  lastToolResult,     \* content of the last executor result
  retryCount,         \* retry counter of the request
  eventsWereModified, \* mutation flag of the request
  anyToolModifiedEvents, \* mutation flag of the current batch
  currentMessages,    \* working copy of the conversation
  response,           \* tool_use blocks of the last model response
  idx,                \* index of the next tool_use block of the batch
  toolResults,        \* tool results of the current batch
  actionValidation,   \* result of the completion verifier after the main loop
  retryValidation,    \* result of the completion verifier after the retry
  sent,               \* records written to the response stream
  handled,            \* history: one entry per tool invocation processed
  modelCalls,         \* history: the model calls made, with the conversation each saw
  requested,          \* number of tool invocations the model has requested so far
  vIn,                \* input of the function under test (function specifications)
  vOut,               \* its result
  inflight            \* the requests sharing the ledger (two-request specification)

vars == << pc, phase, now, message, verifiedDates, requestedAction, toolsCalled,
           lastToolResult, retryCount, eventsWereModified, anyToolModifiedEvents,
           currentMessages, response, idx, toolResults, actionValidation,
           retryValidation, sent, handled, modelCalls, requested, vIn, vOut, inflight >>

requestVars == << pc, phase, now, message, verifiedDates, requestedAction, toolsCalled,
           lastToolResult, retryCount, eventsWereModified, anyToolModifiedEvents,
           currentMessages, response, idx, toolResults, actionValidation,
           retryValidation, sent, handled, modelCalls, requested, inflight >>

-----------------------------------------------------------------------------
(* Bounds and program constants *)

\* Tool invocations the model may request during one request.
MaxCalls == 2

\* Length of the tool histories given to the completion verifier on its own.
MaxHistory == 3

\* src/lib/constants.ts:38
MAX_RETRIES == 2

-----------------------------------------------------------------------------
(* Dates and instants *)

DayNames == << "Sunday", "Monday", "Tuesday", "Wednesday", "Thursday", "Friday", "Saturday" >>

\* getDayOfWeek: 0 = Sunday .. 6 = Saturday
getDayOfWeek(d) == d % 7

getDayName(d) == DayNames[getDayOfWeek(d) + 1]

\* A time argument of a tool call:
\*   none   - absent or the empty string
\*   bad    - a string that does not match YYYY-MM-DDTHH:MM:SS
\*   iso    - a matching string naming day d, hour h
\*   isonan - a matching string that names no instant (hour 25, month 13)
NoTime == [k |-> "none", d |-> 0, h |-> 0]
BadTime == [k |-> "bad", d |-> 0, h |-> 0]
Iso(d, h) == [k |-> "iso", d |-> d, h |-> h]
IsoNaN(d) == [k |-> "isonan", d |-> d, h |-> 0]

\* /^\d{4}-\d{2}-\d{2}T\d{2}:\d{2}:\d{2}$/.test(s)
isoPattern(s) == s.k \in {"iso", "isonan"}

\* !s : undefined or the empty string
Falsy(s) == s.k = "none"

\* new Date(s): a time value, or NaN
NewDate(s) == IF s.k = "iso" THEN [nan |-> FALSE, ms |-> s.d * 24 + s.h]
              ELSE [nan |-> TRUE, ms |-> 0]

\* a <= b on Date objects: false when either is NaN
DateLeq(a, b) == ~a.nan /\ ~b.nan /\ a.ms <= b.ms

\* a < b on Date objects
DateLt(a, b) == ~a.nan /\ ~b.nan /\ a.ms < b.ms

-----------------------------------------------------------------------------
(* Input Validator: validateToolCall (date-enforcer) *)

Valid == [valid |-> TRUE, error |-> "none"]
Invalid(e) == [valid |-> FALSE, error |-> e]

\* The time-carrying tools, whose validation reads toolInput.start_time.
TimedTools == {"create_calendar_event", "update_calendar_event", "check_availability"}

validateCreate(startTime, endTime) ==
  IF Falsy(startTime) \/ Falsy(endTime) THEN Invalid("requires both start_time and end_time")
  ELSE IF ~isoPattern(startTime) THEN Invalid("start_time must be in ISO format")
  ELSE IF ~isoPattern(endTime) THEN Invalid("end_time must be in ISO format")
  ELSE IF DateLeq(NewDate(endTime), NewDate(startTime)) THEN Invalid("INVALID TIME RANGE")
  ELSE Valid

validateUpdate(startTime, endTime) ==
  IF ~Falsy(startTime) /\ ~isoPattern(startTime) THEN Invalid("start_time must be in ISO format")
  ELSE IF ~Falsy(endTime) /\ ~isoPattern(endTime) THEN Invalid("end_time must be in ISO format")
  ELSE IF ~Falsy(startTime) /\ ~Falsy(endTime)
          /\ DateLeq(NewDate(endTime), NewDate(startTime)) THEN Invalid("INVALID TIME RANGE")
  ELSE Valid

validateCheckAvailability(startTime, endTime) ==
  IF Falsy(startTime) \/ Falsy(endTime) THEN Invalid("requires both start_time and end_time")
  ELSE IF ~isoPattern(startTime) \/ ~isoPattern(endTime) THEN Invalid("Times must be in ISO format")
  ELSE Valid

validateToolCall(toolName, toolInput) ==
  IF toolName = "create_calendar_event" THEN validateCreate(toolInput.st, toolInput.en)
  ELSE IF toolName = "update_calendar_event" THEN validateUpdate(toolInput.st, toolInput.en)
  ELSE IF toolName = "check_availability" THEN validateCheckAvailability(toolInput.st, toolInput.en)
  ELSE Valid

\* Reading toolInput.start_time of a null input raises a TypeError.
validateToolCallThrows(toolName, toolInput) == toolInput.nul /\ toolName \in TimedTools

-----------------------------------------------------------------------------
(* Verification ledger and validateEventDate (date-validator) *)

EmptyLedger == [d \in {} |-> "none"]

recordDateVerification(ledger, isoDate, dayOfWeek) ==
  [d \in (DOMAIN ledger) \cup {isoDate} |-> IF d = isoDate THEN dayOfWeek ELSE ledger[d]]

isDateVerified(ledger, isoDate) == isoDate \in DOMAIN ledger

\* Mutant of clearVerificationCache: the ledger is left as it is.
clearVerificationCache_Keep(ledger) == ledger

clearVerificationCache(ledger) == EmptyLedger

WeekdayWords == {"sunday", "monday", "tuesday", "wednesday", "thursday", "friday", "saturday"}

HasWord(msg, words) == \E i \in 1..Len(msg) : msg[i] \in words

\* /\b(monday|...|sunday)\b/i.test(userRequestedDay)
dayNamePattern(msg) == HasWord(msg, WeekdayWords)

LowerDay ==
  [n \in {"Sunday", "Monday", "Tuesday", "Wednesday", "Thursday", "Friday", "Saturday"} |->
     CASE n = "Sunday" -> "sunday" [] n = "Monday" -> "monday" [] n = "Tuesday" -> "tuesday"
       [] n = "Wednesday" -> "wednesday" [] n = "Thursday" -> "thursday"
       [] n = "Friday" -> "friday" [] OTHER -> "saturday"]

\* userRequestedDay.toLowerCase().includes(dayOfWeek.toLowerCase().slice(0, 3)):
\* of the words a message is made of, only the weekday's own name holds its
\* first three letters.
weekdayNamed(msg, dayOfWeek) == HasWord(msg, {LowerDay[dayOfWeek]})

\* The weekday comparison of lines 71-75 returns valid when it succeeds, and
\* the code falls through to the closing return of line 79 when it does not.
validateEventDate(isoDateTime, userRequestedDay, ledger) ==
  IF ~isoPattern(isoDateTime) THEN Invalid("Invalid datetime format")
  ELSE IF dayNamePattern(userRequestedDay) /\ ~isDateVerified(ledger, isoDateTime.d)
       THEN Invalid("date not verified")
  ELSE IF dayNamePattern(userRequestedDay)
          /\ weekdayNamed(userRequestedDay, ledger[isoDateTime.d])
       THEN Valid
  ELSE Valid

-----------------------------------------------------------------------------
(* Action Detector / Completion Verifier (action-detector) *)

DeleteWords == {"cancel", "delete", "remove", "clear", "drop"}
UpdateWords == {"move", "push", "shift", "delay", "change", "update", "reschedule",
                "modify", "adjust", "extend", "shorten"}
CreateWords == {"schedule", "book", "create", "add", "make", "plan"}
AttendeeVerbs == {"invite", "add", "remove", "uninvite"}
ReadWords == {"show", "list", "what", "when", "get", "find", "check", "view", "see"}

\* /\b(invite|add|remove|uninvite)\b.*\b(to|from)\b/i
attendeesPattern(msg) ==
  \E i \in 1..Len(msg) : \E j \in (i+1)..Len(msg) :
     msg[i] \in AttendeeVerbs /\ msg[j] \in {"to", "from"}

\* /\b(schedule|book|create|add|set up|make|plan)\b/i
createPattern(msg) ==
  \/ HasWord(msg, CreateWords)
  \/ \E i \in 1..(Len(msg) - 1) : msg[i] = "set" /\ msg[i+1] = "up"

\* Mutant of detectAction: the attendees pattern is tested before the delete pattern.
detectAction_AttendeesFirst(msg) ==
  IF attendeesPattern(msg) THEN "attendees"
  ELSE IF HasWord(msg, DeleteWords) THEN "delete"
  ELSE IF HasWord(msg, UpdateWords) THEN "update"
  ELSE IF createPattern(msg) THEN "create"
  ELSE IF HasWord(msg, ReadWords) THEN "read"
  ELSE "none"

detectAction(msg) ==
  IF HasWord(msg, DeleteWords) THEN "delete"
  ELSE IF HasWord(msg, UpdateWords) THEN "update"
  ELSE IF attendeesPattern(msg) THEN "attendees"
  ELSE IF createPattern(msg) THEN "create"
  ELSE IF HasWord(msg, ReadWords) THEN "read"
  ELSE "none"

REQUIRED_TOOLS(action) ==
  CASE action = "create" -> {"create_calendar_event"}
    [] action = "update" -> {"get_calendar_events", "update_calendar_event"}
    [] action = "delete" -> {"get_calendar_events", "delete_calendar_event"}
    [] action = "attendees" -> {"get_calendar_events", "add_attendee", "remove_attendee"}
    [] action = "read" -> {"get_calendar_events", "get_calendar_stats", "check_availability"}
    [] OTHER -> {}

Includes(tools, name) == \E i \in 1..Len(tools) : tools[i] = name

\* lastToolResult.match(/\[ID: ([^\]]+)\]/g): only a non-empty event listing carries ids.
HasIdMarkers(content) == content = "Found events"

validateUpdateCompleted(toolsCalled_, lastToolResult_) ==
  LET updateCount == Cardinality({i \in 1..Len(toolsCalled_) : toolsCalled_[i] = "update_calendar_event"})
      hasCalledGetEvents == Includes(toolsCalled_, "get_calendar_events")
      hasEventIds == HasIdMarkers(lastToolResult_)
  IN IF updateCount = 0
     THEN IF ~hasEventIds \/ ~hasCalledGetEvents
          THEN Invalid("did NOT call update_calendar_event: TWO-STEP PROCESS REQUIRED")
          ELSE Invalid("did NOT call update_calendar_event: USE THESE EXACT IDs")
     ELSE Valid

\* Mutant of validateDeleteCompleted: removing an attendee counts as the deletion.
validateDeleteCompleted_AttendeeTool(toolsCalled_) ==
  IF ~Includes(toolsCalled_, "delete_calendar_event") /\ ~Includes(toolsCalled_, "remove_attendee")
  THEN Invalid("did NOT call delete_calendar_event")
  ELSE Valid

validateDeleteCompleted(toolsCalled_) ==
  IF ~Includes(toolsCalled_, "delete_calendar_event")
  THEN Invalid("did NOT call delete_calendar_event")
  ELSE Valid

\* Mutant of validateCreateCompleted: any tool call counts as completion.
validateCreateCompleted_AnyTool(toolsCalled_) ==
  IF Len(toolsCalled_) = 0
  THEN Invalid("did NOT call create_calendar_event")
  ELSE Valid

validateCreateCompleted(toolsCalled_) ==
  IF ~Includes(toolsCalled_, "create_calendar_event")
  THEN Invalid("did NOT call create_calendar_event")
  ELSE Valid

validateActionCompleted(action, toolsCalled_, lastToolResult_) ==
  IF action = "none" \/ action = "read" THEN Valid
  ELSE IF action = "update" THEN validateUpdateCompleted(toolsCalled_, lastToolResult_)
  ELSE IF action = "delete" THEN validateDeleteCompleted(toolsCalled_)
  ELSE IF action = "create" THEN validateCreateCompleted(toolsCalled_)
  ELSE Valid

-----------------------------------------------------------------------------
(* Temporal Resolver: getDateInfo (date-info).  Its text is a sequence of     *)
(* lines, each a sequence of tokens: a date, a weekday name, or other text.   *)

DateTok(d) == [t |-> "date", d |-> d, name |-> ""]
DayTok(name) == [t |-> "day", d |-> 0, name |-> name]
Txt == [t |-> "txt", d |-> 0, name |-> ""]

\* addDaysInUserTimezone on day numbers
addDaysInUserTimezone(d, n) == d + n

formatBusinessWeek(startMonday) ==
  [i \in 1..5 |-> << DayTok(DayNames[i + 1]), Txt, DateTok(addDaysInUserTimezone(startMonday, i - 1)) >>]

WeekReport(monday) ==
  LET friday == addDaysInUserTimezone(monday, 4)
  IN << << Txt >> >> \o formatBusinessWeek(monday)
       \o << << >>, << Txt >>, << Txt, DateTok(monday) >>, << Txt, DateTok(friday) >> >>

\* Mutant of thisWeekMonday: on a weekend the week that has just ended is taken.
thisWeekMonday_PastWeek(today) ==
  LET currentDay == getDayOfWeek(today)
  IN IF currentDay = 0 THEN addDaysInUserTimezone(today, -6)
     ELSE addDaysInUserTimezone(today, -(currentDay - 1))

thisWeekMonday(today) ==
  LET currentDay == getDayOfWeek(today)
  IN IF currentDay = 0 THEN addDaysInUserTimezone(today, 1)
     ELSE IF currentDay = 6 THEN addDaysInUserTimezone(today, 2)
     ELSE addDaysInUserTimezone(today, -(currentDay - 1))

\* Mutant of nextWeekMonday: Sunday is not treated apart.
nextWeekMonday_NoSunday(today) ==
  addDaysInUserTimezone(today, 8 - getDayOfWeek(today))

nextWeekMonday(today) ==
  LET currentDay == getDayOfWeek(today)
      daysUntilNextMonday == IF currentDay = 0 THEN 1 ELSE 8 - currentDay
  IN addDaysInUserTimezone(today, daysUntilNextMonday)

\* Mutant of getDateInfo: the "next week" pattern is tested first.
getDateInfo_NextWeekFirst(query, today) ==
  IF query.nextWeek THEN WeekReport(nextWeekMonday(today))
  ELSE IF query.thisWeek THEN WeekReport(thisWeekMonday(today))
  ELSE << << Txt, DayTok(getDayName(today)), Txt, DateTok(today) >> >>

\* A query: whether it matches /\b(this|upcoming|coming)\s+week\b/, whether it
\* matches /\bnext\s+week\b/, and what chrono.parse makes of it ("single" date
\* d, a "range" from d to e, or "none").
getDateInfo(query, today) ==
  IF query.thisWeek THEN WeekReport(thisWeekMonday(today))
  ELSE IF query.nextWeek THEN WeekReport(nextWeekMonday(today))
  ELSE IF query.chrono = "range" THEN << << Txt, DateTok(query.d), Txt, DateTok(query.e) >> >>
  ELSE IF query.chrono = "single"
       THEN << << DateTok(query.d), Txt, DayTok(getDayName(query.d)) >>, << >>,
               << Txt, DateTok(query.d) >> >>
  ELSE << << Txt, DayTok(getDayName(today)), Txt, DateTok(today) >> >>

\* /(\d{4}-\d{2}-\d{2}).*?(Monday|...|Sunday)/gi over one line, from position
\* pos: the first date that has a weekday name after it on the same line is
\* paired with the nearest such name; the scan resumes after that name.
RECURSIVE scanLine(_, _, _)
scanLine(line, pos, ledger) ==
  LET starts == {i \in pos..Len(line) :
                   line[i].t = "date" /\ \E j \in (i+1)..Len(line) : line[j].t = "day"}
  IN IF starts = {} THEN ledger
     ELSE LET i == CHOOSE x \in starts : \A y \in starts : x <= y
              j == CHOOSE x \in (i+1)..Len(line) :
                     line[x].t = "day" /\ \A y \in (i+1)..(x-1) : line[y].t # "day"
          IN scanLine(line, j + 1, recordDateVerification(ledger, line[i].d, line[j].name))

RECURSIVE recordVerifications(_, _, _)
recordVerifications(lines, n, ledger) ==
  IF n > Len(lines) THEN ledger
  ELSE recordVerifications(lines, n + 1, scanLine(lines[n], 1, ledger))

-----------------------------------------------------------------------------
(* Tool Executor: executeToolCall (tool-executor).  `store` is what the       *)
(* calendar store does with the call: "ok", "empty" (no events) or "fail".    *)

NoQuery == [thisWeek |-> FALSE, nextWeek |-> FALSE, chrono |-> "none", d |-> 0, e |-> 0]

Result(content, modified, ledger) ==
  [content |-> content, modifiedEvents |-> modified, ledger |-> ledger]

\* Mutant of isTimeInPast: no time is in the past.
isTimeInPast_Never(start, nowInstant) == FALSE

\* isTimeInPast(start_time): parseInUserTimezone(start) < new Date()
isTimeInPast(start, nowInstant) == DateLt(NewDate(start), NewDate(nowInstant))

MutatingTools == {"create_calendar_event", "update_calendar_event", "delete_calendar_event",
                  "add_attendee", "remove_attendee"}

executeStoreTool(toolName, store) ==
  IF store = "fail" THEN "Error executing"
  ELSE IF toolName = "get_calendar_events"
       THEN (IF store = "empty" THEN "No events found" ELSE "Found events")
  ELSE IF toolName = "check_availability" THEN "availability"
  ELSE IF toolName = "get_calendar_stats" THEN "Calendar Statistics"
  ELSE "done"

executeToolCall(toolName, toolInput, store, nowInstant, ledger) ==
  IF toolInput.nul /\ toolName # "get_calendar_stats"
    THEN Result("Error executing", FALSE, ledger)
  ELSE IF toolName = "get_date_info"
    THEN Result("date info", FALSE,
                recordVerifications(getDateInfo(toolInput.q, nowInstant.d), 1, ledger))
  ELSE IF toolName = "get_calendar_events" /\ toolInput.rel
    THEN Result("ERROR: Cannot use relative date terms", FALSE, ledger)
  ELSE IF toolName = "create_calendar_event" /\ isTimeInPast(toolInput.st, nowInstant)
    THEN Result("Cannot create event in the past", FALSE, ledger)
  ELSE IF toolName = "draft_email" THEN Result("COMPOSE EMAIL REQUEST", FALSE, ledger)
  ELSE IF toolName \in MutatingTools \cup {"get_calendar_events", "check_availability",
                                          "get_calendar_stats"}
    THEN Result(executeStoreTool(toolName, store),
                toolName \in MutatingTools /\ store # "fail", ledger)
  ELSE Result("Unknown tool", FALSE, ledger)

\* Whether executeToolCall reaches the calendar store for this call.
UsesStore(toolName, toolInput, nowInstant) ==
  /\ ~(toolInput.nul /\ toolName # "get_calendar_stats")
  /\ toolName \in MutatingTools \cup {"get_calendar_events", "check_availability",
                                     "get_calendar_stats"}
  /\ ~(toolName = "get_calendar_events" /\ toolInput.rel)
  /\ ~(toolName = "create_calendar_event" /\ isTimeInPast(toolInput.st, nowInstant))

-----------------------------------------------------------------------------
(* Inputs of a request: the user's message, the instant of the request, and   *)
(* the tool invocations the model may produce.                                *)

Messages ==
  { << "schedule", "coffee", "monday" >>,          \* create, names a weekday
    << "schedule", "coffee", "tomorrow" >>,        \* create, no weekday
    << "move", "standup", "friday" >>,             \* update
    << "cancel", "standup" >>,                     \* delete
    << "invite", "bob", "to", "standup" >>,        \* attendees
    << "what", "is", "on", "monday" >> }           \* read

\* Day 5 is a Friday; days 8 and 9 are the Monday and Tuesday after it.
RequestInstants == { Iso(5, 9) }

ToolInput(st, en, q, rel, nul) == [st |-> st, en |-> en, q |-> q, rel |-> rel, nul |-> nul]

Call(name, input) == [name |-> name, input |-> input]

SingleDate(d) == [thisWeek |-> FALSE, nextWeek |-> FALSE, chrono |-> "single", d |-> d, e |-> 0]
NextWeek == [thisWeek |-> FALSE, nextWeek |-> TRUE, chrono |-> "none", d |-> 0, e |-> 0]

Timed(name, st, en) == Call(name, ToolInput(st, en, NoQuery, FALSE, FALSE))
Plain(name) == Call(name, ToolInput(NoTime, NoTime, NoQuery, FALSE, FALSE))

ToolUses ==
  { Call("get_date_info", ToolInput(NoTime, NoTime, SingleDate(8), FALSE, FALSE)),
    Call("get_date_info", ToolInput(NoTime, NoTime, NextWeek, FALSE, FALSE)),
    Plain("get_calendar_events"),
    Call("get_calendar_events", ToolInput(NoTime, NoTime, NoQuery, TRUE, FALSE)),
    Plain("delete_calendar_event"),
    Timed("create_calendar_event", Iso(8, 10), Iso(8, 11)),
    Timed("create_calendar_event", Iso(9, 10), Iso(9, 11)),
    Timed("create_calendar_event", Iso(8, 11), Iso(8, 10)),
    Timed("create_calendar_event", BadTime, Iso(8, 11)),
    Call("create_calendar_event", ToolInput(NoTime, NoTime, NoQuery, FALSE, TRUE)),
    Timed("update_calendar_event", Iso(8, 10), Iso(8, 11)),
    Timed("update_calendar_event", Iso(8, 11), Iso(8, 11)),
    Timed("check_availability", Iso(8, 11), Iso(8, 10)) }

\* The batches of at most n invocations.
Batches(n) == UNION { [1..k -> ToolUses] : k \in 0..n }

\* What the calendar store may do with a call that reaches it.
StoreOutcomes(toolName, toolInput, nowInstant) ==
  IF ~UsesStore(toolName, toolInput, nowInstant) THEN {"ok"}
  ELSE IF toolName = "get_calendar_events" THEN {"ok", "empty", "fail"}
  ELSE {"ok", "fail"}

\* /\b(meeting|event|calendar|schedule|...)\b/i.test(message)
CalendarKeywords ==
  {"meeting", "event", "calendar", "schedule", "busy", "free", "available", "book", "cancel",
   "delete", "remove", "create", "add", "update", "change", "reschedule", "time", "today",
   "tomorrow", "week", "month"}

shouldForceToolUse(msg) ==
  \/ HasWord(msg, CalendarKeywords)
  \/ \E i \in 1..(Len(msg) - 1) : msg[i] = "how" /\ msg[i+1] \in {"much", "many"}

-----------------------------------------------------------------------------
(* The POST handler *)

Status(name) == [type |-> "status", name |-> name, modifiedEvents |-> FALSE]
ErrorRecord(name) == [type |-> "error", name |-> name, modifiedEvents |-> FALSE]
DoneRecord(modified) == [type |-> "done", name |-> "", modifiedEvents |-> modified]

ToolResult(id, content, isError) == [tool_use_id |-> id, content |-> content, is_error |-> isError]

AssistantTurn(blocks) == [role |-> "assistant", kind |-> "content", blocks |-> blocks,
                          results |-> << >>, text |-> ""]
ToolResultTurn(results) == [role |-> "user", kind |-> "tool_results", blocks |-> << >>,
                            results |-> results, text |-> ""]
TextTurn(text) == [role |-> "user", kind |-> "text", blocks |-> << >>,
                   results |-> << >>, text |-> text]

ModelCall(kind, forced, msgs) == [kind |-> kind, forced |-> forced, seen |-> Len(msgs),
                                  last |-> msgs[Len(msgs)]]

NoVerifierInput == [action |-> "none", toolsCalled |-> << >>, lastToolResult |-> ""]
NoVerifierOutput == [applied |-> FALSE, valid |-> TRUE, error |-> "none", added |-> FALSE]

\* Two requests handled by the same process, for the specification in which
\* they share the module-level ledger.
Requests == {"A", "B"}

\* own: the dates the request's own get_date_info calls recorded; before: the
\* dates the ledger held when the request arrived; log: its tool invocations.
NotStarted == [pc |-> "idle", message |-> << >>, own |-> {}, before |-> {}, log |-> << >>]

NoRequests == [r \in Requests |-> NotStarted]

\* No request is being handled.
Idle ==
  /\ pc = "idle"
  /\ phase = "none"
  /\ message = << >>
  /\ requestedAction = "none"
  /\ toolsCalled = << >>
  /\ lastToolResult = ""
  /\ retryCount = 0
  /\ eventsWereModified = FALSE
  /\ anyToolModifiedEvents = FALSE
  /\ currentMessages = << >>
  /\ response = << >>
  /\ idx = 0
  /\ toolResults = << >>
  /\ actionValidation = Valid
  /\ retryValidation = Valid
  /\ sent = << >>
  /\ handled = << >>
  /\ modelCalls = << >>
  /\ requested = 0

Init ==
  /\ Idle
  /\ now \in RequestInstants
  \* the ledger is module state: an earlier request may have left an entry
  /\ verifiedDates \in { EmptyLedger, recordDateVerification(EmptyLedger, 9, "Tuesday") }
  /\ vIn = NoVerifierInput
  /\ vOut = NoVerifierOutput
  /\ inflight = NoRequests

\* Lines 638-695: the request starts: the ledger is cleared, the action is
\* detected and the initial model call is made.
StartRequest ==
  /\ pc = "idle"
  /\ \E msg \in Messages :
       /\ message' = msg
       /\ requestedAction' = detectAction(msg)
       /\ currentMessages' = << TextTurn("message") >>
       /\ modelCalls' = << ModelCall("initial", shouldForceToolUse(msg), << TextTurn("message") >>) >>
  /\ verifiedDates' = clearVerificationCache(verifiedDates)
  /\ toolsCalled' = << >>
  /\ lastToolResult' = ""
  /\ retryCount' = 0
  /\ eventsWereModified' = FALSE
  /\ pc' = "awaitModel"
  /\ phase' = "initial"
  /\ UNCHANGED << now, anyToolModifiedEvents, response, idx, toolResults, actionValidation,
                  retryValidation, sent, handled, requested, vIn, vOut, inflight >>

WithIds(batch, first) ==
  [i \in 1..Len(batch) |-> [id |-> first + i, name |-> batch[i].name, input |-> batch[i].input]]

\* Lines 698-713 and 813-821: the initial or a loop model call returns.
MainResponse ==
  /\ pc = "awaitModel"
  /\ phase \in {"initial", "loop"}
  /\ \E batch \in Batches(MaxCalls - requested) :
       /\ response' = WithIds(batch, requested)
       /\ requested' = requested + Len(batch)
       /\ IF Len(batch) > 0
          THEN /\ pc' = "tools"
               /\ idx' = 1
               /\ toolResults' = << >>
               /\ anyToolModifiedEvents' = FALSE
          ELSE /\ pc' = "verify"
               /\ UNCHANGED << idx, toolResults, anyToolModifiedEvents >>
  /\ UNCHANGED << phase, now, message, verifiedDates, requestedAction, toolsCalled,
                  lastToolResult, retryCount, eventsWereModified, currentMessages,
                  actionValidation, retryValidation, sent, handled, modelCalls, vIn, vOut, inflight >>

\* Lines 950-955: a model call fails; the outer catch sends an error record.
ModelFails ==
  /\ pc = "awaitModel"
  /\ sent' = Append(sent, ErrorRecord("request"))
  /\ pc' = "failed"
  /\ UNCHANGED << phase, now, message, verifiedDates, requestedAction, toolsCalled,
                  lastToolResult, retryCount, eventsWereModified, anyToolModifiedEvents,
                  currentMessages, response, idx, toolResults, actionValidation,
                  retryValidation, handled, modelCalls, requested, vIn, vOut, inflight >>

\* Lines 724-755: what the main loop decides for one tool_use block before
\* it calls the executor.
\* out is what happens next; toolCall and eventDate are what validateToolCall
\* and validateEventDate returned for the block ("skipped" when not called).
Gate(out, toolCall, eventDate) == [out |-> out, toolCall |-> toolCall, eventDate |-> eventDate]

\* Mutant of mainGate: the validators run but the continue statements are missing.
mainGate_NoContinue(toolName, toolInput, msg, ledger) ==
  IF validateToolCallThrows(toolName, toolInput) THEN Gate("threw", "threw", "skipped")
  ELSE IF ~validateToolCall(toolName, toolInput).valid THEN Gate("execute", "invalid", "skipped")
  ELSE IF toolName # "create_calendar_event" THEN Gate("execute", "valid", "skipped")
  ELSE IF ~validateEventDate(toolInput.st, msg, ledger).valid
       THEN Gate("execute", "valid", "invalid")
  ELSE Gate("execute", "valid", "valid")

mainGate(toolName, toolInput, msg, ledger) ==
  IF validateToolCallThrows(toolName, toolInput) THEN Gate("threw", "threw", "skipped")
  ELSE IF ~validateToolCall(toolName, toolInput).valid THEN Gate("reject", "invalid", "skipped")
  ELSE IF toolName # "create_calendar_event" THEN Gate("execute", "valid", "skipped")
  ELSE IF ~validateEventDate(toolInput.st, msg, ledger).valid
       THEN Gate("reject", "valid", "invalid")
  ELSE Gate("execute", "valid", "valid")

\* Lines 876-884: the retry loop calls the executor directly.
retryGate(toolName, toolInput, msg, ledger) == Gate("execute", "skipped", "skipped")

\* Lines 770-772 and 892-894: if (result.modifiedEvents) flag = true
noteModified(flag, modified) == flag \/ modified

\* Mutant of mergeModified: the batch flag overwrites the request flag.
mergeModified_Overwrite(flag, batchFlag) == batchFlag

\* Lines 795-797: if (anyToolModifiedEvents) eventsWereModified = true
mergeModified(flag, batchFlag) == flag \/ batchFlag

\* The dates a get_date_info text pairs with a weekday name for the ledger.
recordedDates(toolName, toolInput, nowInstant) ==
  IF toolName = "get_date_info" /\ ~toolInput.nul
  THEN DOMAIN recordVerifications(getDateInfo(toolInput.q, nowInstant.d), 1, EmptyLedger)
  ELSE {}

Handled(toolUse, turn, gate, store, result, nowInstant, nBefore) ==
  [id |-> toolUse.id, name |-> toolUse.name, input |-> toolUse.input, turn |-> turn,
   gate |-> gate,
   executed |-> gate.out = "execute",
   storeIO |-> gate.out = "execute" /\ UsesStore(toolUse.name, toolUse.input, nowInstant),
   modified |-> gate.out = "execute" /\ result.modifiedEvents,
   store |-> store,
   recorded |-> IF gate.out = "execute"
                THEN recordedDates(toolUse.name, toolUse.input, nowInstant) ELSE {},
   resultsBefore |-> nBefore]

GateResult(id, gate, result) ==
  CASE gate.out = "threw" -> ToolResult(id, "Error", TRUE)
    [] gate.out = "reject" /\ gate.toolCall = "invalid" -> ToolResult(id, "VALIDATION ERROR", TRUE)
    [] gate.out = "reject" /\ gate.toolCall = "valid" ->
         ToolResult(id, "DATE VALIDATION ERROR", TRUE)
    [] OTHER -> ToolResult(id, result.content, FALSE)

\* Mutant of pushResult: a rejected invocation continues without a result.
pushResult_DropRejected(results, id, gate, result) ==
  IF gate.out = "reject" THEN results ELSE Append(results, GateResult(id, gate, result))

\* toolResults.push(...) of lines 732, 747, 774, 785 (896 and 903 in the retry loop)
pushResult(results, id, gate, result) == Append(results, GateResult(id, gate, result))

\* Mutant of sendStatus: no status record is emitted.
sendStatus_Quiet(records, name) == records

\* Lines 722 and 878: send({ type: 'status', ... }), the first statement of the
\* try block of an iteration, before validation and before the executor.
sendStatus(records, name) == Append(records, Status(name))

\* Mutant of trackTool: the list of tools called holds each name once.
trackTool_Once(tools, name) == IF Includes(tools, name) THEN tools ELSE Append(tools, name)

\* Lines 765 and 887: toolsCalled.push(toolUse.name), the statement after the
\* executor's return.
trackTool(tools, name) == Append(tools, name)

\* Lines 719-792: one iteration of the main loop's for over the tool_use blocks.
ProcessToolUse ==
  /\ pc = "tools"
  /\ idx <= Len(response)
  /\ LET toolUse == response[idx]
         gate == mainGate(toolUse.name, toolUse.input, message, verifiedDates)
     IN \E store \in (IF gate.out = "execute"
                      THEN StoreOutcomes(toolUse.name, toolUse.input, now) ELSE {"ok"}) :
          LET result == executeToolCall(toolUse.name, toolUse.input, store, now, verifiedDates)
          IN /\ sent' = sendStatus(sent, toolUse.name)
                          \o (IF gate.out = "threw" THEN << ErrorRecord(toolUse.name) >> ELSE << >>)
             /\ toolResults' = pushResult(toolResults, toolUse.id, gate, result)
             /\ handled' = Append(handled, Handled(toolUse, "main", gate, store, result, now,
                                                   Len(toolResults)))
             /\ IF gate.out = "execute"
                THEN /\ toolsCalled' = trackTool(toolsCalled, toolUse.name)
                     /\ lastToolResult' = result.content
                     /\ anyToolModifiedEvents' =
                          noteModified(anyToolModifiedEvents, result.modifiedEvents)
                     /\ verifiedDates' = result.ledger
                ELSE UNCHANGED << toolsCalled, lastToolResult, anyToolModifiedEvents,
                                  verifiedDates >>
  /\ idx' = idx + 1
  /\ UNCHANGED << pc, phase, now, message, requestedAction, retryCount, eventsWereModified,
                  currentMessages, response, actionValidation, retryValidation, modelCalls,
                  requested, vIn, vOut, inflight >>

\* Lines 794-810: after the for loop the batch is appended and the next model call made.
FinishBatch ==
  /\ pc = "tools"
  /\ idx > Len(response)
  /\ eventsWereModified' = mergeModified(eventsWereModified, anyToolModifiedEvents)
  /\ LET msgs == currentMessages \o << AssistantTurn(response), ToolResultTurn(toolResults) >>
     IN /\ currentMessages' = msgs
        /\ modelCalls' = Append(modelCalls, ModelCall("loop", FALSE, msgs))
  /\ pc' = "awaitModel"
  /\ phase' = "loop"
  /\ UNCHANGED << now, message, verifiedDates, requestedAction, toolsCalled, lastToolResult,
                  retryCount, anyToolModifiedEvents, response, idx, toolResults,
                  actionValidation, retryValidation, sent, handled, requested, vIn, vOut, inflight >>

\* Line 832: the retry condition.
shouldRetry(validation, count) == ~validation.valid /\ count < MAX_RETRIES

\* Mutant of afterRetry: the retry is a loop that verifies again.
afterRetry_Loop == "verify"

\* Lines 945-948: after the retry block control falls through to the done record.
afterRetry == "sendDone"

\* Lines 824-855: completion verification after the main loop, and the retry call.
Verify ==
  /\ pc = "verify"
  /\ LET v == validateActionCompleted(requestedAction, toolsCalled, lastToolResult)
     IN /\ actionValidation' = v
        /\ IF shouldRetry(v, retryCount)
           THEN LET msgs == currentMessages \o << AssistantTurn(response), TextTurn(v.error) >>
                IN /\ retryCount' = retryCount + 1
                   /\ currentMessages' = msgs
                   /\ modelCalls' = Append(modelCalls, ModelCall("retry", TRUE, msgs))
                   /\ pc' = "awaitModel"
                   /\ phase' = "retry"
           ELSE /\ pc' = "sendDone"
                /\ UNCHANGED << retryCount, currentMessages, modelCalls, phase >>
  /\ UNCHANGED << now, message, verifiedDates, requestedAction, toolsCalled, lastToolResult,
                  eventsWereModified, anyToolModifiedEvents, response, idx, toolResults,
                  retryValidation, sent, handled, requested, vIn, vOut, inflight >>

\* Lines 857-874: the retry model call returns.
RetryResponse ==
  /\ pc = "awaitModel"
  /\ phase = "retry"
  /\ \E batch \in Batches(MaxCalls - requested) :
       /\ response' = WithIds(batch, requested)
       /\ requested' = requested + Len(batch)
       /\ IF Len(batch) > 0
          THEN /\ pc' = "retryTools"
               /\ idx' = 1
               /\ toolResults' = << >>
          ELSE /\ pc' = afterRetry
               /\ UNCHANGED << idx, toolResults >>
  /\ UNCHANGED << phase, now, message, verifiedDates, requestedAction, toolsCalled,
                  lastToolResult, retryCount, eventsWereModified, anyToolModifiedEvents,
                  currentMessages, actionValidation, retryValidation, sent, handled,
                  modelCalls, vIn, vOut, inflight >>

\* Lines 876-910: one iteration of the retry loop's for.  executeToolCall
\* catches its own errors, so the catch of lines 901-909 is not entered by it.
ProcessRetryToolUse ==
  /\ pc = "retryTools"
  /\ idx <= Len(response)
  /\ LET toolUse == response[idx]
         gate == retryGate(toolUse.name, toolUse.input, message, verifiedDates)
     IN \E store \in (IF gate.out = "execute"
                      THEN StoreOutcomes(toolUse.name, toolUse.input, now) ELSE {"ok"}) :
          LET result == executeToolCall(toolUse.name, toolUse.input, store, now, verifiedDates)
          IN /\ sent' = sendStatus(sent, toolUse.name)
             /\ toolResults' = pushResult(toolResults, toolUse.id, gate, result)
             /\ handled' = Append(handled, Handled(toolUse, "retry", gate, store, result, now,
                                                   Len(toolResults)))
             /\ IF gate.out = "execute"
                THEN /\ toolsCalled' = trackTool(toolsCalled, toolUse.name)
                     /\ lastToolResult' = result.content
                     /\ eventsWereModified' =
                          noteModified(eventsWereModified, result.modifiedEvents)
                     /\ verifiedDates' = result.ledger
                ELSE UNCHANGED << toolsCalled, lastToolResult, eventsWereModified,
                                  verifiedDates >>
  /\ idx' = idx + 1
  /\ UNCHANGED << pc, phase, now, message, requestedAction, retryCount,
                  anyToolModifiedEvents, currentMessages, response, actionValidation,
                  retryValidation, modelCalls, requested, vIn, vOut, inflight >>

\* Lines 912-922: the retry batch is appended and the final model call made.
FinishRetryBatch ==
  /\ pc = "retryTools"
  /\ idx > Len(response)
  /\ LET msgs == currentMessages \o << AssistantTurn(response), ToolResultTurn(toolResults) >>
     IN /\ currentMessages' = msgs
        /\ modelCalls' = Append(modelCalls, ModelCall("final", FALSE, msgs))
  /\ pc' = "awaitModel"
  /\ phase' = "final"
  /\ UNCHANGED << now, message, verifiedDates, requestedAction, toolsCalled, lastToolResult,
                  retryCount, eventsWereModified, anyToolModifiedEvents, response, idx,
                  toolResults, actionValidation, retryValidation, sent, handled, requested,
                  vIn, vOut, inflight >>

\* Lines 924-944: the final model call returns; its tool_use blocks, if any,
\* are not looked at; the verifier runs again and its result is not used.
FinalResponse ==
  /\ pc = "awaitModel"
  /\ phase = "final"
  /\ \E batch \in Batches(MaxCalls - requested) :
       /\ response' = WithIds(batch, requested)
       /\ requested' = requested + Len(batch)
  /\ retryValidation' = validateActionCompleted(requestedAction, toolsCalled, lastToolResult)
  /\ pc' = afterRetry
  /\ UNCHANGED << phase, now, message, verifiedDates, requestedAction, toolsCalled,
                  lastToolResult, retryCount, eventsWereModified, anyToolModifiedEvents,
                  currentMessages, idx, toolResults, actionValidation, sent, handled,
                  modelCalls, vIn, vOut, inflight >>

\* Lines 947-949: the done record.
SendDone ==
  /\ pc = "sendDone"
  /\ sent' = Append(sent, DoneRecord(eventsWereModified))
  /\ pc' = "closed"
  /\ UNCHANGED << phase, now, message, verifiedDates, requestedAction, toolsCalled,
                  lastToolResult, retryCount, eventsWereModified, anyToolModifiedEvents,
                  currentMessages, response, idx, toolResults, actionValidation,
                  retryValidation, handled, modelCalls, requested, vIn, vOut, inflight >>

Next ==
  \/ StartRequest
  \/ MainResponse
  \/ ModelFails
  \/ ProcessToolUse
  \/ FinishBatch
  \/ Verify
  \/ RetryResponse
  \/ ProcessRetryToolUse
  \/ FinishRetryBatch
  \/ FinalResponse
  \/ SendDone

Spec == Init /\ [][Next]_vars

-----------------------------------------------------------------------------
(* validateActionCompleted on its own: every action class and every tool      *)
(* history of at most MaxHistory calls.                                       *)

ToolNames ==
  {"get_date_info", "get_calendar_events", "check_availability", "get_calendar_stats",
   "create_calendar_event", "update_calendar_event", "delete_calendar_event",
   "add_attendee", "remove_attendee", "draft_email"}

ActionClasses == {"create", "update", "delete", "attendees", "read", "none"}

Histories == UNION { [1..k -> ToolNames] : k \in 0..MaxHistory }

VerifierInputs ==
  [action : ActionClasses, toolsCalled : Histories, lastToolResult : {"", "Found events"}]

\* The mutating tool that completes an action class.
MutatingToolFor(action) ==
  CASE action = "create" -> "create_calendar_event"
    [] action = "update" -> "update_calendar_event"
    [] action = "delete" -> "delete_calendar_event"
    [] OTHER -> "none"

Verdict(v, added) == [applied |-> TRUE, valid |-> v.valid, error |-> v.error, added |-> added]

InitVerifier ==
  /\ Idle
  /\ now = Iso(5, 9)
  /\ verifiedDates = EmptyLedger
  /\ vIn \in VerifierInputs
  /\ vOut = NoVerifierOutput
  /\ inflight = NoRequests

\* validateActionCompleted is applied to the input.
ApplyVerifier ==
  /\ ~vOut.applied
  /\ vOut' = Verdict(validateActionCompleted(vIn.action, vIn.toolsCalled, vIn.lastToolResult),
                     FALSE)
  /\ UNCHANGED << vIn, requestVars >>

\* The missing mutating call is added to the same history and the verifier applied again.
AddMissingCall ==
  /\ vOut.applied
  /\ ~vOut.added
  /\ MutatingToolFor(vIn.action) # "none"
  /\ ~Includes(vIn.toolsCalled, MutatingToolFor(vIn.action))
  /\ LET tools == Append(vIn.toolsCalled, MutatingToolFor(vIn.action))
     IN /\ vIn' = [vIn EXCEPT !.toolsCalled = tools]
        /\ vOut' = Verdict(validateActionCompleted(vIn.action, tools, vIn.lastToolResult), TRUE)
  /\ UNCHANGED requestVars

NextVerifier == ApplyVerifier \/ AddMissingCall

SpecVerifier == InitVerifier /\ [][NextVerifier]_vars

-----------------------------------------------------------------------------
(* Requests sharing the ledger.  verifiedDates is a module-level object of    *)
(* date-validator, so every request the process handles reads and writes the  *)
(* same ledger.  A request is followed through the steps that touch it: its   *)
(* start (route.ts 674), and each tool invocation of its main loop (725-761), *)
(* which is one uninterrupted step up to the await of executeToolCall.        *)

MaxSteps == 2

SharedMessages == { << "schedule", "coffee", "monday" >>, << "schedule", "coffee", "tomorrow" >> }

SharedToolUses ==
  { Call("get_date_info", ToolInput(NoTime, NoTime, SingleDate(8), FALSE, FALSE)),
    Timed("create_calendar_event", Iso(8, 10), Iso(8, 11)) }

sharedFrame == << pc, phase, now, message, requestedAction, toolsCalled, lastToolResult,
                  retryCount, eventsWereModified, anyToolModifiedEvents, currentMessages,
                  response, idx, toolResults, actionValidation, retryValidation, sent,
                  handled, modelCalls, requested, vIn, vOut >>

InitShared ==
  /\ Idle
  /\ now \in RequestInstants
  /\ verifiedDates = EmptyLedger
  /\ vIn = NoVerifierInput
  /\ vOut = NoVerifierOutput
  /\ inflight = NoRequests

Running(r) == inflight[r].pc = "running"

\* Lines 668-695 for request r: clearVerificationCache() and the first model call.
StartRequestOf(r) ==
  /\ inflight[r].pc = "idle"
  /\ \E msg \in SharedMessages :
       inflight' = [inflight EXCEPT ![r] = [pc |-> "running", message |-> msg, own |-> {},
                                            before |-> DOMAIN verifiedDates, log |-> << >>]]
  /\ verifiedDates' = clearVerificationCache(verifiedDates)
  /\ UNCHANGED sharedFrame

\* The same, when the process takes a request only after the previous one ended.
StartRequestAlone(r) ==
  /\ \A q \in Requests : ~Running(q)
  /\ StartRequestOf(r)

Logged(toolUse, gate, own) ==
  [name |-> toolUse.name, input |-> toolUse.input, gate |-> gate, own |-> own]

\* Lines 719-778 for request r: one tool_use block is validated and executed.
ProcessToolUseOf(r) ==
  /\ Running(r)
  /\ Len(inflight[r].log) < MaxSteps
  /\ \E toolUse \in SharedToolUses :
     \E store \in StoreOutcomes(toolUse.name, toolUse.input, now) :
       LET gate == mainGate(toolUse.name, toolUse.input, inflight[r].message, verifiedDates)
           result == executeToolCall(toolUse.name, toolUse.input, store, now, verifiedDates)
           recorded == IF gate.out = "execute"
                       THEN recordedDates(toolUse.name, toolUse.input, now) ELSE {}
       IN /\ verifiedDates' = IF gate.out = "execute" THEN result.ledger ELSE verifiedDates
          /\ inflight' = [inflight EXCEPT
                            ![r].log = Append(@, Logged(toolUse, gate, inflight[r].own)),
                            ![r].own = @ \cup recorded]
  /\ UNCHANGED sharedFrame

\* Lines 947-949 for request r: the request ends.
SendDoneOf(r) ==
  /\ Running(r)
  /\ inflight' = [inflight EXCEPT ![r].pc = "closed"]
  /\ UNCHANGED << verifiedDates, sharedFrame >>

\* Requests in flight together, interleaving at their await points.
NextShared == \E r \in Requests : StartRequestOf(r) \/ ProcessToolUseOf(r) \/ SendDoneOf(r)

SpecShared == InitShared /\ [][NextShared]_vars

\* Requests handled one after the other.
NextSequential == \E r \in Requests : StartRequestAlone(r) \/ ProcessToolUseOf(r) \/ SendDoneOf(r)

SpecSequential == InitShared /\ [][NextSequential]_vars

-----------------------------------------------------------------------------
(* check_availability (tool-executor 146-189) over the events of the calendar *)
(* read path.  Instants are seconds; a local wall-clock time of the user's    *)
(* timezone (America/New_York) lies utcOffset hours behind UTC.               *)

UtcOffsets == {4, 5}

\* A field of a Google event time object, or of a CalendarEvent: absent, the
\* empty string, an RFC 3339 date-time with offset, or a date-only string.
Absent == [k |-> "absent", v |-> 0]
EmptyString == [k |-> "empty", v |-> 0]
DateTimeString(instant) == [k |-> "dateTime", v |-> instant]
DateString(d) == [k |-> "date", v |-> d]

\* !text: an absent field and the empty string are falsy
FalsyText(text) == text.k \in {"absent", "empty"}

\* a || b
Or(a, b) == IF FalsyText(a) THEN b ELSE a

\* fromZonedTime(isoDateStr, USER_TIMEZONE) for a well-formed local date-time
parseInUserTimezone(iso, utcOffset) == iso.d * 86400 + iso.h * 3600 + utcOffset * 3600

\* endOfDayInUserTimezone: 23:59:59 of the local day of the instant
endOfDayInUserTimezone(instant, utcOffset) ==
  ((instant - utcOffset * 3600) \div 86400) * 86400 + 86399 + utcOffset * 3600

\* new Date(text).getTime(): a date-only string is midnight UTC of that date
DateOf(text) == IF text.k = "date" THEN text.v * 86400 ELSE text.v

\* Events as the Google API lists them: timed (start.dateTime / end.dateTime)
\* or all-day (start.date and the exclusive end.date).
GoogleTimed(d, startHour, endHour, utcOffset) ==
  [start |-> [dateTime |-> DateTimeString(parseInUserTimezone(Iso(d, startHour), utcOffset)),
              date |-> Absent],
   end |-> [dateTime |-> DateTimeString(parseInUserTimezone(Iso(d, endHour), utcOffset)),
            date |-> Absent]]

GoogleAllDay(d) ==
  [start |-> [dateTime |-> Absent, date |-> DateString(d)],
   end |-> [dateTime |-> Absent, date |-> DateString(d + 1)]]

\* calendar.ts 9-31, the start and end of the CalendarEvent
transformGoogleEvent(event) ==
  [start |-> [dateTime |-> Or(Or(event.start.dateTime, event.start.date), EmptyString)],
   end |-> [dateTime |-> Or(Or(event.end.dateTime, event.end.date), EmptyString)]]

getCalendarEvents(listed) == [i \in 1..Len(listed) |-> transformGoogleEvent(listed[i])]

\* Mutant of overlaps: touching intervals count as overlapping.
overlaps_Touching(startTime, endTime, eventStart, eventEnd) ==
  startTime <= eventEnd /\ endTime >= eventStart

\* startTime < eventEnd && endTime > eventStart
overlaps(startTime, endTime, eventStart, eventEnd) ==
  startTime < eventEnd /\ endTime > eventStart

\* The filter of lines 157-167.
isConflict(event, startTime, endTime) ==
  IF FalsyText(event.start.dateTime) \/ FalsyText(event.end.dateTime)
  THEN TRUE
  ELSE overlaps(startTime, endTime, DateOf(event.start.dateTime), DateOf(event.end.dateTime))

MaxOf(S) == CHOOSE x \in S : \A y \in S : y <= x

Availability(available, conflicts, suggestedTime) ==
  [applied |-> TRUE, available |-> available, conflicts |-> conflicts,
   suggestedTime |-> suggestedTime]

checkAvailability(start_time, end_time, listed, utcOffset) ==
  LET startTime == parseInUserTimezone(start_time, utcOffset)
      endTime == parseInUserTimezone(end_time, utcOffset)
      dayEnd == endOfDayInUserTimezone(startTime, utcOffset)
      events == getCalendarEvents(listed)
      conflicts == SelectSeq(events, LAMBDA event : isConflict(event, startTime, endTime))
      ends == { IF FalsyText(conflicts[i].end.dateTime) THEN dayEnd
                ELSE DateOf(conflicts[i].end.dateTime) : i \in 1..Len(conflicts) }
  IN IF Len(conflicts) = 0 THEN Availability(TRUE, conflicts, 0)
     ELSE Availability(FALSE, conflicts, MaxOf(ends))

\* The function specification: a requested slot of day AvailabilityDay and the
\* events the calendar holds on that day.
MaxEvents == 2

AvailabilityDay == 8

SlotHours == {13, 14, 15, 16, 20, 21}

TimedPlan(startHour, endHour) == [allDay |-> FALSE, startHour |-> startHour, endHour |-> endHour]
AllDayPlan == [allDay |-> TRUE, startHour |-> 0, endHour |-> 0]

PlannedEvents == { TimedPlan(14, 15), TimedPlan(15, 16), AllDayPlan }

Plans == UNION { [1..k -> PlannedEvents] : k \in 0..MaxEvents }

\* What events.list returns for the plan.
Listed(plan, utcOffset) ==
  [i \in 1..Len(plan) |->
     IF plan[i].allDay THEN GoogleAllDay(AvailabilityDay)
     ELSE GoogleTimed(AvailabilityDay, plan[i].startHour, plan[i].endHour, utcOffset)]

AvailabilityInputs ==
  { [start |-> Iso(AvailabilityDay, s), end |-> Iso(AvailabilityDay, e), plan |-> plan,
     utcOffset |-> o, moved |-> FALSE] :
      s \in SlotHours, e \in SlotHours, plan \in Plans, o \in UtcOffsets }

NoAvailability == [applied |-> FALSE, available |-> FALSE, conflicts |-> << >>,
                   suggestedTime |-> 0]

InitAvailability ==
  /\ Idle
  /\ now \in RequestInstants
  /\ verifiedDates = EmptyLedger
  /\ inflight = NoRequests
  /\ vIn \in { i \in AvailabilityInputs : i.start.h < i.end.h }
  /\ vOut = NoAvailability

\* check_availability is applied to the input.
ApplyAvailability ==
  /\ ~vOut.applied
  /\ vOut' = checkAvailability(vIn.start, vIn.end, Listed(vIn.plan, vIn.utcOffset), vIn.utcOffset)
  /\ UNCHANGED << vIn, requestVars >>

\* The local date-time of an instant, as the model writes it into start_time.
LocalIso(instant, utcOffset) ==
  Iso((instant - utcOffset * 3600) \div 86400, ((instant - utcOffset * 3600) % 86400) \div 3600)

\* After a conflict, the slot is asked for again at the suggested time, with
\* its length kept.
RequestSuggested ==
  /\ vOut.applied
  /\ ~vOut.available
  /\ ~vIn.moved
  /\ LET start == LocalIso(vOut.suggestedTime, vIn.utcOffset)
         end == Iso(start.d, start.h + (vIn.end.h - vIn.start.h))
     IN /\ vIn' = [vIn EXCEPT !.start = start, !.end = end, !.moved = TRUE]
        /\ vOut' = checkAvailability(start, end, Listed(vIn.plan, vIn.utcOffset), vIn.utcOffset)
  /\ UNCHANGED requestVars

NextAvailability == ApplyAvailability \/ RequestSuggested

SpecAvailability == InitAvailability /\ [][NextAvailability]_vars

-----------------------------------------------------------------------------
(* getDateInfo as a function of the query and the reference date. *)

MaxDay == 13

ReferenceDays == 0..MaxDay

ThisWeek == [thisWeek |-> TRUE, nextWeek |-> FALSE, chrono |-> "none", d |-> 0, e |-> 0]
BothWeeks == [thisWeek |-> TRUE, nextWeek |-> TRUE, chrono |-> "none", d |-> 0, e |-> 0]
DateRange(d, e) == [thisWeek |-> FALSE, nextWeek |-> FALSE, chrono |-> "range", d |-> d, e |-> e]

DateQueries == { ThisWeek, NextWeek, BothWeeks, SingleDate(8), DateRange(8, 9), NoQuery }

NoReport == [applied |-> FALSE, lines |-> << >>]

\* vIn.asked counts the queries made; vIn.first is the report of the first one.
InitDateInfo ==
  /\ Idle
  /\ now \in RequestInstants
  /\ verifiedDates = EmptyLedger
  /\ inflight = NoRequests
  /\ vIn \in { [today |-> t, query |-> q, asked |-> 0, first |-> << >>] :
               t \in ReferenceDays, q \in DateQueries }
  /\ vOut = NoReport

\* getDateInfo is applied to the query.
ApplyDateInfo ==
  /\ ~vOut.applied
  /\ vIn' = [vIn EXCEPT !.asked = 1]
  /\ vOut' = [applied |-> TRUE, lines |-> getDateInfo(vIn.query, vIn.today)]
  /\ UNCHANGED requestVars

\* After "this week", "next week" is asked on the same reference date.
AskNextWeek ==
  /\ vOut.applied
  /\ vIn.asked = 1
  /\ vIn.query = ThisWeek
  /\ vIn' = [vIn EXCEPT !.asked = 2, !.query = NextWeek, !.first = vOut.lines]
  /\ vOut' = [applied |-> TRUE, lines |-> getDateInfo(NextWeek, vIn.today)]
  /\ UNCHANGED requestVars

NextDateInfo == ApplyDateInfo \/ AskNextWeek

SpecDateInfo == InitDateInfo /\ [][NextDateInfo]_vars

-----------------------------------------------------------------------------
(* The mutating tools against the calendar store (tool-executor 204-295 and   *)
(* calendar.ts).  The store holds events by id, each with its attendee list;  *)
(* ops lists the API requests a tool call issues.  fault names the request    *)
(* that fails for a reason of its own (network, authorisation), if any.       *)

MaxToolCalls == 3

EventIds == {"e1", "e2"}
Emails == {"bob", "amy"}
Faults == {"none", "get", "write"}

StoredEvent(present, attendees) == [present |-> present, attendees |-> attendees]

Store(events, inserted) == [events |-> events, inserted |-> inserted]

\* Event e1 exists, with or without an attendee; event e2 was deleted earlier.
InitialStores ==
  { Store([id \in EventIds |-> IF id = "e1" THEN StoredEvent(TRUE, attendees)
                               ELSE StoredEvent(FALSE, << >>)], 0) :
      attendees \in { << >>, << "bob" >> } }

Op(request, eventId) == [request |-> request, eventId |-> eventId]

Outcome(threw, error, store, ops) ==
  [threw |-> threw, message |-> error, store |-> store, ops |-> ops]

\* calendar.events.get succeeds
Found(store, eventId, fault) == fault # "get" /\ store.events[eventId].present

HasEmail(attendees, email) == \E i \in 1..Len(attendees) : attendees[i] = email

\* calendar.ts 69-91
createCalendarEvent(store, fault) ==
  IF fault = "write" THEN Outcome(TRUE, "store failure", store, << Op("insert", "new") >>)
  ELSE Outcome(FALSE, "", Store(store.events, store.inserted + 1), << Op("insert", "new") >>)

\* Mutant of deleteCalendarEvent: the delete is issued without the lookup.
deleteCalendarEvent_NoLookup(store, eventId, fault) ==
  IF fault = "write" \/ ~store.events[eventId].present
  THEN Outcome(TRUE, "store failure", store, << Op("delete", eventId) >>)
  ELSE Outcome(FALSE, "",
               Store([store.events EXCEPT ![eventId] = StoredEvent(FALSE, << >>)], store.inserted),
               << Op("delete", eventId) >>)

\* calendar.ts 193-220
deleteCalendarEvent(store, eventId, fault) ==
  IF ~Found(store, eventId, fault)
  THEN Outcome(TRUE, "Event not found with ID", store, << Op("get", eventId) >>)
  ELSE IF fault = "write"
  THEN Outcome(TRUE, "store failure", store, << Op("get", eventId), Op("delete", eventId) >>)
  ELSE Outcome(FALSE, "",
               Store([store.events EXCEPT ![eventId] = StoredEvent(FALSE, << >>)], store.inserted),
               << Op("get", eventId), Op("delete", eventId) >>)

\* Mutant of addEventAttendee: the attendee is appended without the check.
addEventAttendee_NoCheck(store, eventId, email, fault) ==
  IF ~Found(store, eventId, fault)
  THEN Outcome(TRUE, "store failure", store, << Op("get", eventId) >>)
  ELSE IF fault = "write"
  THEN Outcome(TRUE, "store failure", store, << Op("get", eventId), Op("patch", eventId) >>)
  ELSE Outcome(FALSE, "",
               Store([store.events EXCEPT ![eventId].attendees = Append(@, email)], store.inserted),
               << Op("get", eventId), Op("patch", eventId) >>)

\* calendar.ts 222-280
addEventAttendee(store, eventId, email, fault) ==
  IF ~Found(store, eventId, fault)
  THEN Outcome(TRUE, "store failure", store, << Op("get", eventId) >>)
  ELSE IF HasEmail(store.events[eventId].attendees, email)
  THEN Outcome(TRUE, "is already invited to this event", store, << Op("get", eventId) >>)
  ELSE IF fault = "write"
  THEN Outcome(TRUE, "store failure", store, << Op("get", eventId), Op("patch", eventId) >>)
  ELSE Outcome(FALSE, "",
               Store([store.events EXCEPT ![eventId].attendees = Append(@, email)], store.inserted),
               << Op("get", eventId), Op("patch", eventId) >>)

\* calendar.ts 282-339
removeEventAttendee(store, eventId, email, fault) ==
  LET currentAttendees == store.events[eventId].attendees
      updatedAttendees == SelectSeq(currentAttendees, LAMBDA a : a # email)
  IN IF ~Found(store, eventId, fault)
     THEN Outcome(TRUE, "store failure", store, << Op("get", eventId) >>)
     ELSE IF Len(updatedAttendees) = Len(currentAttendees)
     THEN Outcome(TRUE, "not found in this event", store, << Op("get", eventId) >>)
     ELSE IF fault = "write"
     THEN Outcome(TRUE, "store failure", store, << Op("get", eventId), Op("patch", eventId) >>)
     ELSE Outcome(FALSE, "",
                  Store([store.events EXCEPT ![eventId].attendees = updatedAttendees],
                        store.inserted),
                  << Op("get", eventId), Op("patch", eventId) >>)

StoreInput(start_time, event_id, email) ==
  [start_time |-> start_time, event_id |-> event_id, email |-> email]

StoreResult(content, error, modified, store, ops) ==
  [content |-> content, message |-> error, modifiedEvents |-> modified, store |-> store,
   ops |-> ops]

\* The try / catch of executeToolCall around a store function.
Caught(outcome, success) ==
  IF outcome.threw
  THEN StoreResult("Error executing", outcome.message, FALSE, outcome.store, outcome.ops)
  ELSE StoreResult(success, "", TRUE, outcome.store, outcome.ops)

\* tool-executor 204-295
executeToolCallOnStore(toolName, toolInput, store, nowInstant, fault) ==
  IF toolName = "create_calendar_event"
  THEN IF isTimeInPast(toolInput.start_time, nowInstant)
       THEN StoreResult("Cannot create event in the past", "", FALSE, store, << >>)
       ELSE Caught(createCalendarEvent(store, fault), "Event created")
  ELSE IF toolName = "delete_calendar_event"
  THEN Caught(deleteCalendarEvent(store, toolInput.event_id, fault), "Event deleted")
  ELSE IF toolName = "add_attendee"
  THEN Caught(addEventAttendee(store, toolInput.event_id, toolInput.email, fault), "Added")
  ELSE IF toolName = "remove_attendee"
  THEN Caught(removeEventAttendee(store, toolInput.event_id, toolInput.email, fault), "Removed")
  ELSE StoreResult("Unknown tool", "", FALSE, store, << >>)

\* Day 4 lies before the request instant, day 8 after it.
StoreCalls ==
  { Call("create_calendar_event", StoreInput(st, "", "")) :
      st \in { Iso(4, 10), Iso(5, 9), Iso(8, 10) } }
  \cup { Call("delete_calendar_event", StoreInput(NoTime, id, "")) : id \in EventIds }
  \cup { Call(name, StoreInput(NoTime, id, email)) :
           name \in {"add_attendee", "remove_attendee"}, id \in EventIds, email \in Emails }

NoStoreResult == [applied |-> FALSE, call |-> Call("", StoreInput(NoTime, "", "")),
                  fault |-> "none", before |-> Store(<< >>, 0),
                  result |-> StoreResult("", "", FALSE, Store(<< >>, 0), << >>),
                  previous |-> Call("", StoreInput(NoTime, "", "")), previousOk |-> FALSE]

\* vIn is the store and the number of tool calls made on it; vOut the last
\* call, the store it found, its result, and the call before it.
InitStore ==
  /\ Idle
  /\ now \in RequestInstants
  /\ verifiedDates = EmptyLedger
  /\ inflight = NoRequests
  /\ vIn \in { [store |-> st, calls |-> 0] : st \in InitialStores }
  /\ vOut = NoStoreResult

\* One tool call is executed against the store.
ExecuteOnStore ==
  /\ vIn.calls < MaxToolCalls
  /\ \E call \in StoreCalls : \E fault \in Faults :
       LET result == executeToolCallOnStore(call.name, call.input, vIn.store, now, fault)
       IN /\ vIn' = [store |-> result.store, calls |-> vIn.calls + 1]
          /\ vOut' = [applied |-> TRUE, call |-> call, fault |-> fault,
                      before |-> vIn.store, result |-> result,
                      previous |-> vOut.call, previousOk |-> vOut.result.modifiedEvents]
  /\ UNCHANGED requestVars

NextStore == ExecuteOnStore

SpecStore == InitStore /\ [][NextStore]_vars

-----------------------------------------------------------------------------
(* The action detector and the completion check that follows a turn, applied *)
(* to messages built from a small vocabulary.                                *)

\* Words of one message.
MaxWords == 4

\* One word that only the delete pattern knows ("remove" is also an attendee
\* verb), one update word, the attendee verbs "invite" and "add" ("add" is also
\* a create word), the relation word "from", one create word, one read word and
\* a word no pattern knows.
DetectWords == {"remove", "move", "invite", "add", "from", "schedule", "what", "bob"}

DetectMessages == UNION { [1..k -> DetectWords] : k \in 0..MaxWords }

\* The tools a main loop may have executed before the completion check.
DetectTurns ==
  { << >>,
    << "remove_attendee" >>,
    << "get_calendar_events", "remove_attendee" >>,
    << "get_calendar_events", "delete_calendar_event" >> }

NoModelCall == [kind |-> "none", forced |-> FALSE, seen |-> 0, last |-> TextTurn("")]

NoDetection ==
  [stage |-> "start", action |-> "none", toolsCalled |-> << >>, valid |-> TRUE,
   retried |-> FALSE, call |-> NoModelCall]

InitDetect ==
  /\ Idle
  /\ now \in RequestInstants
  /\ verifiedDates = EmptyLedger
  /\ inflight = NoRequests
  /\ vIn \in DetectMessages
  /\ vOut = NoDetection

\* route.ts 677: the requested action is detected from the user's message.
ApplyDetect ==
  /\ vOut.stage = "start"
  /\ vOut' = [vOut EXCEPT !.stage = "detected", !.action = detectAction(vIn)]
  /\ UNCHANGED vIn
  /\ UNCHANGED requestVars

\* route.ts 824-855: the completion check after a main loop that executed the
\* tools of one turn, and the forced retry call it leads to.
ApplyCompletion ==
  /\ vOut.stage = "detected"
  /\ \E turn \in DetectTurns : \E last \in {"", "Found events"} :
       LET v == validateActionCompleted(vOut.action, turn, last)
       IN vOut' = [vOut EXCEPT !.stage = "verified",
                               !.toolsCalled = turn,
                               !.valid = v.valid,
                               !.retried = shouldRetry(v, 0),
                               !.call = IF shouldRetry(v, 0)
                                        THEN ModelCall("retry", TRUE, << TextTurn(v.error) >>)
                                        ELSE NoModelCall]
  /\ UNCHANGED vIn
  /\ UNCHANGED requestVars

NextDetect == ApplyDetect \/ ApplyCompletion

SpecDetect == InitDetect /\ [][NextDetect]_vars

-----------------------------------------------------------------------------
(* The same handler for a request made after the start of one of the events *)
(* the model asks to create.                                                 *)

LaterInstants == { Iso(9, 9) }

InitLater ==
  /\ Idle
  /\ now \in LaterInstants
  /\ verifiedDates = EmptyLedger
  /\ vIn = NoVerifierInput
  /\ vOut = NoVerifierOutput
  /\ inflight = NoRequests

SpecLater == InitLater /\ [][Next]_vars

-----------------------------------------------------------------------------
(* Claims *)

HandledIdx == 1..Len(handled)

CallsOfKind(k) == {i \in 1..Len(modelCalls) : modelCalls[i].kind = k}

\* Whether a get_date_info call handled before position i recorded date d.
VerifiedBefore(i, d) ==
  \E j \in 1..(i - 1) :
     handled[j].name = "get_date_info" /\ handled[j].executed /\ d \in handled[j].recorded

\* end_time <= start_time for two ISO instants
EndNotAfterStart(input) ==
  /\ input.st.k = "iso"
  /\ input.en.k = "iso"
  /\ input.en.d * 24 + input.en.h <= input.st.d * 24 + input.st.h

\* C1: when the user's message names a weekday, a create_calendar_event
\* invocation reaches the executor only if an earlier get_date_info call of the
\* same request recorded its start date, in whichever model turn it arrives;
\* and it is not rejected by the date check when such a call was made.
C1_CreateNeedsVerifiedDate ==
  dayNamePattern(message) =>
    \A i \in HandledIdx :
       handled[i].name = "create_calendar_event" =>
         /\ handled[i].executed => VerifiedBefore(i, handled[i].input.st.d)
         /\ handled[i].gate.eventDate = "invalid" => ~VerifiedBefore(i, handled[i].input.st.d)

\* C2: the executor is called for an invocation only after validateToolCall
\* returned valid for it and, for create_calendar_event, after
\* validateEventDate returned valid, in every turn including the retry turn.
C2_ExecutedOnlyAfterValidation ==
  \A i \in HandledIdx :
     handled[i].executed =>
       /\ handled[i].gate.toolCall = "valid"
       /\ handled[i].name = "create_calendar_event" => handled[i].gate.eventDate = "valid"

\* The results answer the blocks one for one, in order.
Answers(results, blocks) ==
  /\ Len(results) = Len(blocks)
  /\ \A i \in 1..Len(blocks) : results[i].tool_use_id = blocks[i].id

\* C3: every assistant turn with tool invocations in the conversation is
\* directly followed by one batch holding exactly one result per invocation in
\* the requested order, so each later model call sees it answered; within a
\* batch the invocations are handled one at a time in order, and a rejected or
\* throwing invocation neither drops nor duplicates a result.
C3_OneResultPerInvocation ==
  /\ \A k \in 1..Len(currentMessages) :
        (currentMessages[k].role = "assistant" /\ Len(currentMessages[k].blocks) > 0) =>
          /\ k < Len(currentMessages)
          /\ currentMessages[k + 1].kind = "tool_results"
          /\ Answers(currentMessages[k + 1].results, currentMessages[k].blocks)
  /\ \A c \in CallsOfKind("loop") \cup CallsOfKind("final") :
        modelCalls[c].last.kind = "tool_results"
  /\ pc \in {"tools", "retryTools"} =>
        /\ idx = Len(toolResults) + 1
        /\ Answers(toolResults, SubSeq(response, 1, idx - 1))
  /\ \A i \in HandledIdx : handled[i].id = i /\ handled[i].resultsBefore < handled[i].id

\* C3 witness: a model call is awaited after a batch of two in which the first
\* invocation was rejected by validation and the second executed.
C3_Witness ==
  /\ pc = "awaitModel"
  /\ Len(currentMessages) >= 3
  /\ LET last == currentMessages[Len(currentMessages)]
     IN /\ last.kind = "tool_results"
        /\ Len(last.results) = 2
        /\ last.results[1].is_error
        /\ last.results[1].content = "VALIDATION ERROR"
        /\ ~last.results[2].is_error

\* The handled entry of a block of the conversation.
HandledOf(id) == handled[id]

\* C4: an invocation that validateToolCall or validateEventDate rejected is not
\* given to the executor and does no store I/O, and every other invocation of
\* its batch is still validated and, when valid, executed.
C4_RejectionIsLocal ==
  /\ \A i \in HandledIdx :
        (handled[i].gate.toolCall = "invalid" \/ handled[i].gate.eventDate = "invalid") =>
          ~handled[i].executed /\ ~handled[i].storeIO
  /\ \A k \in 1..Len(currentMessages) :
        LET blocks == currentMessages[k].blocks
        IN (\E b \in 1..Len(blocks) :
              HandledOf(blocks[b].id).gate.toolCall = "invalid"
              \/ HandledOf(blocks[b].id).gate.eventDate = "invalid") =>
           \A b \in 1..Len(blocks) :
              LET h == HandledOf(blocks[b].id)
              IN /\ h.gate.toolCall # "skipped"
                 /\ (h.gate.toolCall = "valid" /\ h.gate.eventDate # "invalid") => h.executed

\* C4 witness: a finished batch whose first invocation was rejected by the date
\* check and whose second was executed against the store.
C4_Witness ==
  \E k \in 1..Len(currentMessages) :
     /\ Len(currentMessages[k].blocks) = 2
     /\ HandledOf(currentMessages[k].blocks[1].id).gate.eventDate = "invalid"
     /\ HandledOf(currentMessages[k].blocks[2].id).executed
     /\ HandledOf(currentMessages[k].blocks[2].id).storeIO

\* C5: after a model turn without tools the verifier runs; when it reports
\* invalid exactly one retry call is made, forced and with the verifier's
\* error as last user message; at most one retry batch and one further model
\* call follow, and then done is sent whatever the second verification says.
\* The retry counter never exceeds 1.
C5_SingleBoundedRetry ==
  /\ retryCount <= 1
  /\ Cardinality(CallsOfKind("retry")) = retryCount
  /\ Cardinality(CallsOfKind("final")) <= retryCount
  /\ \A c \in CallsOfKind("retry") :
        /\ modelCalls[c].forced
        /\ ~actionValidation.valid
        /\ modelCalls[c].last = TextTurn(actionValidation.error)
  /\ pc \in {"sendDone", "closed"} => (retryCount = 1 <=> ~actionValidation.valid)
  /\ (phase \in {"retry", "final"} /\ pc \notin {"awaitModel", "retryTools", "failed"}) =>
        pc \in {"sendDone", "closed"}
  /\ pc = "closed" => sent[Len(sent)].type = "done"

\* C5 witness: done was sent after a retry whose batch did not complete the
\* action, so that the second verification failed too.
C5_Witness ==
  /\ pc = "closed"
  /\ retryCount = 1
  /\ CallsOfKind("final") # {}
  /\ ~retryValidation.valid
  /\ sent[Len(sent)].type = "done"

AnyExecutorModified == \E i \in HandledIdx : handled[i].modified

\* C6: the done record's modifiedEvents is true exactly when some executor
\* call of the request, in the main loop or the retry turn, returned
\* modifiedEvents = true; the flag is never reset and a rejected invocation
\* never sets it.
C6_MutationFlag ==
  /\ pc = "tools" => ((eventsWereModified \/ anyToolModifiedEvents) <=> AnyExecutorModified)
  /\ pc # "tools" => (eventsWereModified <=> AnyExecutorModified)
  /\ pc = "closed" => (sent[Len(sent)].modifiedEvents <=> AnyExecutorModified)
  /\ \A i \in HandledIdx : handled[i].modified => handled[i].executed

\* C6 witness: done reports a mutation made in the first of two batches, the
\* second of which mutated nothing.
C6_Witness ==
  /\ pc = "closed"
  /\ sent[Len(sent)].type = "done"
  /\ sent[Len(sent)].modifiedEvents
  /\ Len(handled) = 2
  /\ handled[1].modified
  /\ handled[1].turn = "main"
  /\ ~handled[2].modified
  /\ Len(currentMessages) >= 5

\* C7: for create, delete and update the verifier reports invalid when the
\* action's mutating tool is absent from the tools called, and valid once that
\* call is added to the same history; for read and for no action it reports
\* valid for every history.
C7_MutatingCallRequired ==
  vOut.applied =>
    /\ vIn.action \in {"read", "none"} => vOut.valid
    /\ (MutatingToolFor(vIn.action) # "none" /\ ~vOut.added
        /\ ~Includes(vIn.toolsCalled, MutatingToolFor(vIn.action))) => ~vOut.valid
    /\ vOut.added => vOut.valid

\* C7 witness: update with a history of get_calendar_events alone was invalid
\* and became valid when update_calendar_event was added.
C7_Witness ==
  /\ vOut.applied
  /\ vOut.added
  /\ vOut.valid
  /\ vIn.action = "update"
  /\ vIn.toolsCalled = << "get_calendar_events", "update_calendar_event" >>

\* C8: for update the verifier reports valid only if both get_calendar_events
\* and update_calendar_event are among the tools called.
C8_UpdateNeedsLookup ==
  (vOut.applied /\ vIn.action = "update" /\ vOut.valid) =>
    /\ Includes(vIn.toolsCalled, "get_calendar_events")
    /\ Includes(vIn.toolsCalled, "update_calendar_event")

\* C9: for attendees the verifier reports valid only if get_calendar_events
\* and add_attendee or remove_attendee were called; a request classified
\* attendees that called no attendee tool is reported invalid and retried.
C9_AttendeesNeedAttendeeTool ==
  (requestedAction = "attendees" /\ pc \in {"sendDone", "closed"}) =>
    \/ /\ actionValidation.valid
       /\ Includes(toolsCalled, "get_calendar_events")
       /\ Includes(toolsCalled, "add_attendee") \/ Includes(toolsCalled, "remove_attendee")
    \/ /\ ~actionValidation.valid
       /\ retryCount = 1

\* C10: for create_calendar_event, update_calendar_event and check_availability
\* validateToolCall rejects every pair with end_time <= start_time, and no
\* such pair reaches the executor.
C10_NoInvertedRangeExecuted ==
  \A i \in HandledIdx :
     (handled[i].name \in TimedTools /\ EndNotAfterStart(handled[i].input)) =>
       /\ handled[i].gate.toolCall \in {"valid", "invalid"} => handled[i].gate.toolCall = "invalid"
       /\ ~handled[i].executed

\* The tool results the conversation holds, and those of the batch in progress.
ConversationResults ==
  UNION { { currentMessages[m].results[k] : k \in 1..Len(currentMessages[m].results) } :
          m \in 1..Len(currentMessages) }

AllResults == ConversationResults \cup { toolResults[k] : k \in 1..Len(toolResults) }

\* A call the validation layer turns down: by validateToolCall or
\* validateEventDate in the handler, or as a relative date term in the executor.
RelativeDateRejected(h) ==
  h.executed /\ h.name = "get_calendar_events" /\ h.input.rel /\ ~h.input.nul

Rejected(h) == h.gate.out = "reject" \/ RelativeDateRejected(h)

\* C11: every rejection (bad ISO format, inverted or empty range, relative date
\* term, unverified weekday date) produces a tool result with is_error = TRUE,
\* which is appended to the conversation, and the request goes on to the next
\* model call instead of ending.
C11_RejectionIsErrorResult ==
  \A i \in HandledIdx :
     Rejected(handled[i]) =>
       /\ \E r \in AllResults : r.tool_use_id = handled[i].id /\ r.is_error
       /\ pc \in {"tools", "retryTools"} \/ handled[i].id \in { r.tool_use_id : r \in ConversationResults }

\* C12: for create_calendar_event when the user's message names a weekday, the
\* date check accepts the call only if the ledger entry for the start date
\* carries that same weekday; a start date in the ledger under another weekday
\* is rejected.
C12_WeekdayMustMatch ==
  \A i \in HandledIdx :
     ( /\ handled[i].name = "create_calendar_event"
       /\ handled[i].gate.eventDate = "valid"
       /\ dayNamePattern(message) ) =>
         /\ isDateVerified(verifiedDates, handled[i].input.st.d)
         /\ weekdayNamed(message, verifiedDates[handled[i].input.st.d])

\* The (date, weekday) pairs a text states: a date and a weekday name on one line.
PairsOfLine(line) ==
  { << line[i].d, line[j].name >> :
      << i, j >> \in { x \in (1..Len(line)) \X (1..Len(line)) :
                        line[x[1]].t = "date" /\ line[x[2]].t = "day" } }

OutputPairs(lines) == UNION { PairsOfLine(lines[n]) : n \in 1..Len(lines) }

\* C13: when a get_date_info call returns, every ISO date its output pairs with
\* a weekday name is in the verification ledger with that weekday: the five
\* Monday-to-Friday dates of a week query as well as the date of a single-date
\* query.
C13_OutputPairsRecorded ==
  \A i \in HandledIdx :
     ( /\ handled[i].name = "get_date_info"
       /\ handled[i].executed
       /\ ~handled[i].input.nul ) =>
         \A pair \in OutputPairs(getDateInfo(handled[i].input.q, now.d)) :
            /\ isDateVerified(verifiedDates, pair[1])
            /\ verifiedDates[pair[1]] = pair[2]

\* The date checks of request r: its create_calendar_event invocations that
\* reached validateEventDate while its message names a weekday.
DateChecks(r) ==
  { i \in 1..Len(inflight[r].log) :
      /\ inflight[r].log[i].name = "create_calendar_event"
      /\ inflight[r].log[i].gate.eventDate \in {"valid", "invalid"}
      /\ dayNamePattern(inflight[r].message) }

\* C14: at the start of every request the ledger is emptied before any model
\* call or tool execution of that request, so a date verified in an earlier
\* request is unverified in the next request until get_date_info is called
\* again: the ledger of a running request holds only dates its own
\* get_date_info calls recorded, and its date checks accept only those.
C14_LedgerEmptiedAtStart ==
  \A r \in Requests :
     /\ Running(r) => DOMAIN verifiedDates \subseteq inflight[r].own
     /\ \A i \in DateChecks(r) :
          inflight[r].log[i].gate.eventDate = "valid" =>
            inflight[r].log[i].input.st.d \in inflight[r].log[i].own

\* A request found a date in the ledger that an earlier request had verified,
\* and its create on that date was rejected as unverified.
C14_Witness ==
  \E r \in Requests : \E i \in DateChecks(r) :
     /\ inflight[r].log[i].input.st.d \in inflight[r].before
     /\ inflight[r].log[i].gate.eventDate = "invalid"
     /\ \E q \in Requests \ {r} : inflight[q].pc = "closed"

\* C15: when two requests are in flight and interleave at their await points,
\* the outcome of each request's create_calendar_event date check depends only
\* on the get_date_info calls of that same request: the check accepts a date
\* exactly when the request itself verified it.
C15_ChecksDependOnOwnCalls ==
  \A r \in Requests : \A i \in DateChecks(r) :
     inflight[r].log[i].gate.eventDate = "valid" <=>
       inflight[r].log[i].input.st.d \in inflight[r].log[i].own

DoneSent == \E i \in 1..Len(sent) : sent[i].type = "done"

\* C16: every tool invocation the model requests during a request, in the main
\* loop or in the turns after a retry, has received a tool result by the time
\* done is emitted; done is emitted only after a model turn that contains zero
\* tool invocations.
C16_DoneAfterAllAnswered ==
  DoneSent =>
    /\ \A id \in 1..requested : \E r \in ConversationResults : r.tool_use_id = id
    /\ Len(response) = 0

\* The chat client revalidates its cached calendar data when it reads a done
\* record whose modifiedEvents is true; an error record only shows a message.
ClientRevalidates ==
  \E i \in 1..Len(sent) : sent[i].type = "done" /\ sent[i].modifiedEvents

\* C17: whenever at least one tool call of a request mutated the calendar
\* store, the caller receives a done record with modifiedEvents = true (and the
\* chat client then revalidates its cached calendar data), including when a
\* later model call or tool step of the same request fails: once the response
\* stream is closed, a request that mutated the store has sent that record.
C17_MutationReachesCaller ==
  (pc \in {"closed", "failed"} /\ AnyExecutorModified) => ClientRevalidates

\* Whether a timed event of the plan overlaps the requested slot, on the clock
\* of the requested day.
TimedOverlap ==
  \E i \in 1..Len(vIn.plan) :
     /\ ~vIn.plan[i].allDay
     /\ vIn.start.d = AvailabilityDay
     /\ vIn.start.h < vIn.plan[i].endHour
     /\ vIn.end.h > vIn.plan[i].startHour

HasAllDay == \E i \in 1..Len(vIn.plan) : vIn.plan[i].allDay

\* C18: check_availability reports a conflict exactly when some timed event of
\* the requested day satisfies requestedStart < eventEnd and requestedEnd >
\* eventStart; a slot that starts exactly when an event ends, or ends exactly
\* when one starts, is reported available.
C18_ConflictIffOverlap ==
  (vOut.applied /\ ~vIn.moved) =>
    /\ TimedOverlap => ~vOut.available
    /\ ~HasAllDay => (~vOut.available => TimedOverlap)

\* A slot that starts when the only event of the day ends is reported available.
C18_Witness ==
  /\ vOut.applied
  /\ vOut.available
  /\ vIn.plan = << TimedPlan(14, 15) >>
  /\ vIn.start = Iso(AvailabilityDay, 15)
  /\ vIn.end = Iso(AvailabilityDay, 16)

\* C19: an all-day event on the requested day is always reported as a
\* conflict, for every requested slot of that day whatever its time of day,
\* for events as the calendar read path returns them.
C19_AllDayAlwaysConflicts ==
  (vOut.applied /\ ~vIn.moved /\ HasAllDay) => ~vOut.available

\* C20: when check_availability reports a conflict, the suggested start is the
\* end of the latest-ending event that overlaps the requested slot, and a slot
\* beginning at the suggested time does not overlap any event of that day.
C20_SuggestionIsFree ==
  /\ (vOut.applied /\ ~vOut.available) =>
       /\ \E i \in 1..Len(vOut.conflicts) :
            vOut.suggestedTime = DateOf(vOut.conflicts[i].end.dateTime)
       /\ \A i \in 1..Len(vOut.conflicts) :
            DateOf(vOut.conflicts[i].end.dateTime) <= vOut.suggestedTime
  /\ (vOut.applied /\ vIn.moved) => vOut.available

\* What a week report states: the weekday name and the date of its first and
\* last business day, and the start_date and end_date of its closing lines.
IsWeekReport(lines) == Len(lines) = 10
FirstDayName(lines) == lines[2][1].name
FirstDay(lines) == lines[2][3].d
LastDayName(lines) == lines[6][1].name
LastDay(lines) == lines[6][3].d
StartDate(lines) == lines[9][2].d
EndDate(lines) == lines[10][2].d

\* The week begins on a Monday and ends on the Friday 4 days later.
MondayToFriday(lines) ==
  /\ IsWeekReport(lines)
  /\ FirstDayName(lines) = "Monday" /\ (FirstDay(lines) % 7) = 1
  /\ LastDayName(lines) = "Friday" /\ LastDay(lines) = FirstDay(lines) + 4
  /\ StartDate(lines) = FirstDay(lines)
  /\ EndDate(lines) = FirstDay(lines) + 4

\* C21: for every reference weekday, "next week" returns as first business day
\* the Monday 1 day after a Sunday reference and 8 - d days after a reference
\* with weekday number d (Monday = 1 .. Saturday = 6), hence 3 days after a
\* Friday, and the range ends on the Friday 4 days after that Monday.
C21_NextWeekMonday ==
  (vOut.applied /\ vIn.query = NextWeek) =>
    /\ MondayToFriday(vOut.lines)
    /\ (vIn.today % 7) = 0 => FirstDay(vOut.lines) = vIn.today + 1
    /\ (vIn.today % 7) # 0 => FirstDay(vOut.lines) = vIn.today + (8 - (vIn.today % 7))
    /\ (vIn.today % 7) = 5 => FirstDay(vOut.lines) = vIn.today + 3

\* "next week" asked on a Sunday.
C21_Witness ==
  /\ vOut.applied
  /\ vIn.query = NextWeek
  /\ vIn.asked = 1
  /\ vIn.today = 7
  /\ FirstDay(vOut.lines) = 8

\* C22: for a "this week" query the reported business week begins the next day
\* on a Sunday reference, two days later on a Saturday, and otherwise on the
\* most recent Monday (the reference itself on a Monday); the start is always
\* a Monday and the end the Friday 4 days later; the pattern is tested before
\* the "next week" pattern.
C22_ThisWeekMonday ==
  (vOut.applied /\ vIn.query \in {ThisWeek, BothWeeks}) =>
    /\ MondayToFriday(vOut.lines)
    /\ (vIn.today % 7) = 0 => FirstDay(vOut.lines) = vIn.today + 1
    /\ (vIn.today % 7) = 6 => FirstDay(vOut.lines) = vIn.today + 2
    /\ (vIn.today % 7) \in 1..5 =>
         /\ FirstDay(vOut.lines) <= vIn.today
         /\ vIn.today - FirstDay(vOut.lines) < 7

\* A query matching both patterns, asked on a Wednesday, reports the current week.
C22_Witness ==
  /\ vOut.applied
  /\ vIn.query = BothWeeks
  /\ vIn.today = 10
  /\ FirstDay(vOut.lines) = 8

\* C30: on a Monday-to-Friday reference the Monday reported for "next week" is
\* exactly 7 days after the Monday reported for "this week"; on a Saturday or
\* Sunday reference both resolve to the same Monday-to-Friday range.
C30_NextWeekAfterThisWeek ==
  (vOut.applied /\ vIn.asked = 2) =>
    /\ (vIn.today % 7) \in 1..5 => FirstDay(vOut.lines) = FirstDay(vIn.first) + 7
    /\ (vIn.today % 7) \in {0, 6} =>
         /\ FirstDay(vOut.lines) = FirstDay(vIn.first)
         /\ StartDate(vOut.lines) = StartDate(vIn.first)
         /\ EndDate(vOut.lines) = EndDate(vIn.first)

\* Both weeks asked on a Saturday.
C30_Witness ==
  /\ vOut.applied
  /\ vIn.asked = 2
  /\ vIn.today = 6
  /\ FirstDay(vOut.lines) = 8
  /\ FirstDay(vIn.first) = 8

Issued(request) == { k \in 1..Len(vOut.result.ops) : vOut.result.ops[k].request = request }

Refused ==
  /\ vOut.result.content = "Error executing"
  /\ ~vOut.result.modifiedEvents
  /\ vOut.result.store = vOut.before

\* C23: a create_calendar_event whose start instant is before the current time
\* returns a rejection text with modifiedEvents = false and never calls the
\* store's create operation; the requested time is not silently adjusted.
C23_PastCreateRejected ==
  ( /\ vOut.applied
    /\ vOut.call.name = "create_calendar_event"
    /\ vOut.call.input.start_time.d * 24 + vOut.call.input.start_time.h < now.d * 24 + now.h ) =>
      /\ vOut.result.content = "Cannot create event in the past"
      /\ ~vOut.result.modifiedEvents
      /\ vOut.result.ops = << >>
      /\ vOut.result.store = vOut.before

\* A create on day 4, the day before the request, was refused.
C23_Witness ==
  /\ vOut.applied
  /\ vOut.call.name = "create_calendar_event"
  /\ vOut.call.input.start_time = Iso(4, 10)
  /\ vOut.result.content = "Cannot create event in the past"

\* C24: delete_calendar_event on an id whose existence lookup fails returns a
\* not-found text with modifiedEvents = false and the store's delete operation
\* is never issued for it; every delete issued to the store follows a
\* successful lookup of the same id within the same tool call.
C24_DeleteAfterLookup ==
  vOut.applied =>
    /\ ( /\ vOut.call.name = "delete_calendar_event"
         /\ ~Found(vOut.before, vOut.call.input.event_id, vOut.fault) ) =>
           /\ Refused
           /\ vOut.result.message = "Event not found with ID"
           /\ Issued("delete") = {}
    /\ \A k \in Issued("delete") :
         /\ Found(vOut.before, vOut.result.ops[k].eventId, vOut.fault)
         /\ \E j \in 1..(k - 1) :
              vOut.result.ops[j] = Op("get", vOut.result.ops[k].eventId)

\* A delete of the event that was deleted earlier.
C24_Witness ==
  /\ vOut.applied
  /\ vOut.call.name = "delete_calendar_event"
  /\ vOut.call.input.event_id = "e2"
  /\ vOut.fault = "none"
  /\ vOut.result.message = "Event not found with ID"

OnList == HasEmail(vOut.before.events[vOut.call.input.event_id].attendees, vOut.call.input.email)

\* C25: add_attendee for an email already on the event's attendee list returns
\* an error with modifiedEvents = false, issues no update to the store and
\* leaves the list unchanged, so a second identical add after a successful
\* first one fails; remove_attendee for an email that is not on the list is
\* rejected in the same way.
C25_IdempotentRefusal ==
  ( /\ vOut.applied
    /\ vOut.call.name \in {"add_attendee", "remove_attendee"}
    /\ Found(vOut.before, vOut.call.input.event_id, vOut.fault) ) =>
      /\ (vOut.call.name = "add_attendee" /\ OnList) =>
           Refused /\ Issued("patch") = {}
      /\ (vOut.call.name = "remove_attendee" /\ ~OnList) =>
           Refused /\ Issued("patch") = {}
      /\ (vOut.call.name = "add_attendee" /\ vOut.previous = vOut.call /\ vOut.previousOk) =>
           Refused /\ Issued("patch") = {}

\* The same add made twice: the first succeeded, the second is refused.
C25_Witness ==
  /\ vOut.applied
  /\ vOut.call.name = "add_attendee"
  /\ vOut.previous = vOut.call
  /\ vOut.previousOk
  /\ vOut.fault = "none"
  /\ vOut.result.message = "is already invited to this event"

\* The classes in the order in which detectAction tests their patterns.
PatternOrder == << "delete", "update", "attendees", "create", "read" >>

PatternMatches(class, msg) ==
  CASE class = "delete" -> HasWord(msg, DeleteWords)
    [] class = "update" -> HasWord(msg, UpdateWords)
    [] class = "attendees" -> attendeesPattern(msg)
    [] class = "create" -> createPattern(msg)
    [] class = "read" -> HasWord(msg, ReadWords)

Matching(msg) == {i \in 1..Len(PatternOrder) : PatternMatches(PatternOrder[i], msg)}

\* C26: detectAction gives a message the class of the first pattern that
\* matches in the order delete, update, attendees, create, read, and no action
\* when no pattern matches; a message matching several patterns gets the
\* earliest class.
C26_FirstMatchingPattern ==
  vOut.stage # "start" =>
    IF Matching(vIn) = {}
    THEN vOut.action = "none"
    ELSE \E i \in Matching(vIn) :
           /\ \A j \in Matching(vIn) : i <= j
           /\ vOut.action = PatternOrder[i]

\* A message matching the delete, attendees and create patterns at once has
\* been classified.
C26_Witness ==
  /\ vOut.stage = "detected"
  /\ Cardinality(Matching(vIn)) >= 3
  /\ 1 \in Matching(vIn)
  /\ 3 \in Matching(vIn)

\* "remove X from Y": the word remove, later the word from.
RemovesAttendee(msg) ==
  \E i \in 1..Len(msg) : \E j \in (i+1)..Len(msg) : msg[i] = "remove" /\ msg[j] = "from"

\* C28: a message asking to remove X from Y is classified delete, never
\* attendees; when the turn executed remove_attendee and not
\* delete_calendar_event the completion check fails and the forced retry call
\* is made with the instruction naming delete_calendar_event.
C28_RemoveFromIsDelete ==
  (RemovesAttendee(vIn) /\ vOut.stage # "start") =>
    /\ vOut.action = "delete"
    /\ ( /\ vOut.stage = "verified"
         /\ Includes(vOut.toolsCalled, "remove_attendee")
         /\ ~Includes(vOut.toolsCalled, "delete_calendar_event") ) =>
         /\ ~vOut.valid
         /\ vOut.retried
         /\ vOut.call.kind = "retry"
         /\ vOut.call.forced
         /\ vOut.call.last = TextTurn("did NOT call delete_calendar_event")

\* The message "remove bob from ..." was verified after a turn that looked the
\* events up and removed the attendee.
C28_Witness ==
  /\ RemovesAttendee(vIn)
  /\ attendeesPattern(vIn)
  /\ vOut.stage = "verified"
  /\ vOut.toolsCalled = << "get_calendar_events", "remove_attendee" >>
  /\ vOut.retried

\* The status records sent to the caller, in the order sent.
StatusRecords == SelectSeq(sent, LAMBDA r : r.type = "status")

Executed == SelectSeq(handled, LAMBDA h : h.executed)

\* The executor returned without reaching the store: the start is in the past.
RefusedAsPast(h) ==
  /\ h.name = "create_calendar_event"
  /\ h.executed
  /\ ~h.storeIO
  /\ ~h.input.nul
  /\ isTimeInPast(h.input.st, now)

\* The executor reached the store and the store failed.
StoreFailed(h) ==
  /\ h.name = "create_calendar_event"
  /\ h.executed
  /\ h.storeIO
  /\ h.store = "fail"

\* The completion check of the request was made.
Verified == pc \in {"sendDone", "closed"}

\* C29: the list of tools called holds exactly the names of the invocations
\* for which the executor was invoked, in order, whatever the executor
\* returned, and none of a rejected invocation; and when a main-loop
\* create_calendar_event was refused as in the past or failed in the store, the
\* completion check for action create passes and no retry is made.
C29_CalledIffExecuted ==
  /\ Len(toolsCalled) = Len(Executed)
  /\ \A i \in 1..Len(Executed) : toolsCalled[i] = Executed[i].name
  /\ ( /\ requestedAction = "create"
       /\ Verified
       /\ \E i \in HandledIdx :
            handled[i].turn = "main" /\ (RefusedAsPast(handled[i]) \/ StoreFailed(handled[i])) )
     => /\ actionValidation.valid
        /\ retryCount = 0
        /\ CallsOfKind("retry") = {}

\* A create request was answered after one create was refused as in the past
\* and another failed in the store: the done record reports no modification.
C29_Witness ==
  /\ requestedAction = "create"
  /\ pc = "closed"
  /\ \E i \in HandledIdx : RefusedAsPast(handled[i])
  /\ \E i \in HandledIdx : StoreFailed(handled[i])
  /\ retryCount = 0
  /\ sent[Len(sent)] = DoneRecord(FALSE)

====
